---- MODULE Spec2Model ----
(***************************************************************************)
(* Model of the email processing daemon (EmailDaemon) of                   *)
(* smart-email-reminders-mcp: its lifecycle (start / stop /                *)
(* forceProcessing / timer tick / updateConfig), the processing cycle with *)
(* its in-memory retry queue, and the persisted DaemonState.               *)
(*                                                                         *)
(* Every asynchronous method invocation is a process with a program        *)
(* counter; one action is the code that runs between two awaits.           *)
(* Collaborators (rule store, mail sources, field extractor, reminder      *)
(* sink, file system) answer nondeterministically.                         *)
(***************************************************************************)
EXTENDS Integers, Sequences, FiniteSets, TLC

\* ------------------------------------------------------------------ bounds
\* Number of processing cycles that may begin; the clock is read once per
\* cycle, so this is also the largest timestamp the daemon can record.
MaxTime == 3
\* the same for the runs that exercise the whole lifecycle
MaxLifeTime == 2
\* days the clock and the extracted dates range over, and days before
MaxDay == 2
MaxDaysBefore == 1
\* daemons the MCP server may create
MaxDaemons == 3

\* ------------------------------------------------------- program constants
RetryAttempts == 3
ConfidenceThreshold == 25
MaxEmailsPerScan == 50
DefaultInterval == 30

\* ------------------------------------------------------------ input domains
Sources == {"gmail", "icloud"}
\* one message per provider; iCloud ids carry the icloud_ prefix
Msgs == {"g1", "icloud_1"}
Provider(m) == IF m = "g1" THEN "gmail" ELSE "icloud"
MsgsOf(s) == {m \in Msgs : Provider(m) = s}
Rules == {"r1", "r2"}
\* loadRules returns no rule when the rule file is missing, else the rules of
\* the file (the file can appear and disappear between cycles)
RuleSets == {{}, {"r1", "r2"}}
\* rules whose sender/subject/body criteria the message satisfies
Criteria(m) == IF m = "g1" THEN {"r1", "r2"} ELSE {"r1"}
\* rule -> providers it lists
RuleProviders(r) == IF r = "r1" THEN {"gmail", "icloud"} ELSE {"gmail"}
Confidences == {24, 25}
\* the field extractor is a function of message and rule
ConfTables ==
  {cf \in [Msgs -> [Rules -> Confidences]] :
     cf["g1"]["r2"] = 25 /\ cf["icloud_1"]["r2"] = 25}
\* A message date is either older than every cycle but the first, or later
\* than every timestamp the daemon will ever read (a future-dated header).
Future == MaxTime + MaxLifeTime + 1
Dates == {1, Future}
Intervals == {DefaultInterval, 15}
Procs == {"start", "stop", "force", "tick"}

VARIABLES
  isRunning,      \* EmailDaemon._isRunning
  intervalId,     \* EmailDaemon.intervalId: 0 = undefined, else the interval of the timer it names
  orphanTimers,   \* armed timers no longer named by intervalId
  cfgInterval,    \* config.intervalMinutes
  isProcessing,   \* EmailDaemon.isProcessing
  queue,          \* EmailDaemon.processingQueue
  state,          \* EmailDaemon.state (DaemonState)
  file,           \* content of the state file
  client,         \* gmailClient / icloudClient
  now,            \* clock
  msgDate,        \* date header of each message
  env,            \* what exists outside the daemon: mailboxes, rule file versions,
                  \* extractor answers, requested intervals, the calls that can fail
  pc,             \* position of each method invocation
  cyc,            \* locals of processEmailsOnce per invocation
  out,            \* collaborator calls and events issued by the latest step
  created,        \* history: reminders the sink created per message and rule
  settled,        \* history: processedEmailIds as it was when the latest cycle began
  life,           \* history: the latest of "start() was called" and "stop() resolved"
  reminded,       \* history: the messages that had a reminder when the process was last killed
  server          \* SmartEmailRemindersMCP: the daemons it has created and its daemon field

vars == <<isRunning, intervalId, orphanTimers, cfgInterval, isProcessing, queue,
          state, file, client, now, msgDate, env, pc, cyc, out, created, settled,
          life, reminded, server>>

\* ------------------------------------------------------------------ helpers
Ev(op, id, rule, n) == [op |-> op, id |-> id, rule |-> rule, n |-> n]

Min(a, b) == IF a < b THEN a ELSE b

\* a fixed enumeration order of rule names and of message ids
RuleOrder == <<"r1", "r2">>
MsgOrder == <<"g1", "icloud_1">>

RECURSIVE SeqOfSet(_, _)
SeqOfSet(order, S) ==
  IF order = << >> THEN << >>
  ELSE IF Head(order) \in S THEN <<Head(order)>> \o SeqOfSet(Tail(order), S)
       ELSE SeqOfSet(Tail(order), S)

SetOfSeq(s) == {s[i] : i \in 1..Len(s)}

EmptyState ==
  [lastProcessedTimestamp |-> 0,
   processedEmailIds |-> {},
   totalEmailsProcessed |-> 0,
   totalRemindersCreated |-> 0,
   lastErrorTimestamp |-> 0,
   lastErrorMessage |-> ""]

\* Date.toISOString and new Date(text)
ToISOString(t) == [iso |-> t]
NewDate(text) == text.iso
\* a property JSON.stringify leaves out because its value is undefined
Omitted == [iso |-> -1]

\* saveState: the JSON text written to the state file
SerializeState(st) ==
  [lastProcessedTimestamp |-> ToISOString(st.lastProcessedTimestamp),
   processedEmailIds |-> SeqOfSet(MsgOrder, st.processedEmailIds),
   totalEmailsProcessed |-> st.totalEmailsProcessed,
   totalRemindersCreated |-> st.totalRemindersCreated,
   lastErrorTimestamp |-> IF st.lastErrorTimestamp = 0 THEN Omitted
                          ELSE ToISOString(st.lastErrorTimestamp),
   lastErrorMessage |-> st.lastErrorMessage]

NoCyc ==
  [rules |-> {}, asked |-> {}, todo |-> << >>, pending |-> << >>,
   cur |-> Ev("", "", "", 0), matchedN |-> 0, snap |-> SerializeState(EmptyState),
   ids0 |-> {}, failures |-> FALSE]

\* the state file: missing, not JSON, or the JSON text of a saved state
FileOf(kind, data) == [kind |-> kind, data |-> data]

ParseStateWithoutError(f) ==
  [lastProcessedTimestamp |-> NewDate(f.lastProcessedTimestamp),
   processedEmailIds |-> SetOfSeq(f.processedEmailIds),
   totalEmailsProcessed |-> f.totalEmailsProcessed,
   totalRemindersCreated |-> f.totalRemindersCreated,
   lastErrorTimestamp |-> 0,
   lastErrorMessage |-> f.lastErrorMessage]

\* loadState: the DaemonState built from a parsed state file
ParseState(f) ==
  [lastProcessedTimestamp |-> NewDate(f.lastProcessedTimestamp),
   processedEmailIds |-> SetOfSeq(f.processedEmailIds),
   totalEmailsProcessed |-> f.totalEmailsProcessed,
   totalRemindersCreated |-> f.totalRemindersCreated,
   lastErrorTimestamp |-> IF f.lastErrorTimestamp = Omitted THEN 0
                          ELSE NewDate(f.lastErrorTimestamp),
   lastErrorMessage |-> f.lastErrorMessage]

\* the status the rule file gives each rule: r2 is paused
Status(r) == IF r = "r2" THEN "paused" ELSE "active"

\* EmailFilter.findMatchingRules: status is not consulted
FindMatchingRules(m, rules) ==
  {r \in rules : Provider(m) \in RuleProviders(r) /\ r \in Criteria(m)}

\* GmailClient.isReady / iCloudClient.isReady through the optional chain
IsReady(s) == client[s] = "ready"

\* the MCP server before any tool call: no daemon created
NoServer == [daemons |-> << >>, current |-> 0]

InitDaemon ==
  /\ isRunning = FALSE
  /\ intervalId = 0
  /\ orphanTimers = 0
  /\ cfgInterval = DefaultInterval
  /\ isProcessing = FALSE
  /\ queue = << >>
  /\ state = EmptyState
  /\ file \in {FileOf(k, SerializeState(EmptyState)) : k \in env.files}
  /\ now = 0
  /\ pc = [p \in Procs |-> "idle"]
  /\ cyc = [p \in Procs |-> NoCyc]
  /\ out = {}
  /\ created = [m \in Msgs |-> [r \in Rules |-> 0]]
  /\ settled = {}
  /\ life = "constructed"
  /\ reminded = {}
  /\ server = NoServer

\* the constructor creates a client for every enabled and configured source
NewClients(enabled) ==
  [s \in Sources |-> IF s \in enabled THEN "constructed" ELSE "undefined"]

\* only Gmail is configured; its mailbox holds one message and the rule file
\* one rule
Init ==
  /\ client = NewClients({"gmail"})
  /\ msgDate = [m \in Msgs |-> Future]
  /\ env = [enabled |-> {"gmail"}, mailbox |-> {"g1"}, ruleFiles |-> {{"r1"}},
            conf |-> [m \in Msgs |-> [r \in Rules |-> 85]],
            intervals |-> {DefaultInterval}, maxTime |-> MaxLifeTime,
            faults |-> {}, files |-> {"ENOENT"}]
  /\ InitDaemon

\* both mailboxes hold a message, the Gmail one future-dated; the rule file
\* is missing or holds both rules
InitQueue ==
  /\ msgDate \in {d \in [Msgs -> Dates] : d["g1"] = Future}
  /\ client = NewClients(Sources)
  /\ \E cf \in ConfTables :
       env = [enabled |-> Sources, mailbox |-> Msgs, ruleFiles |-> RuleSets, conf |-> cf,
              intervals |-> Intervals, maxTime |-> MaxTime,
              faults |-> {}, files |-> {"ENOENT"}]
  /\ InitDaemon

\* ------------------------------------------------------- processing cycle
\* assignment of everything a step of processEmailsOnce can change
Commit(p, npc, ncyc, st, q, crt, o, ip, stl) ==
  /\ pc' = [pc EXCEPT ![p] = npc]
  /\ cyc' = [cyc EXCEPT ![p] = ncyc]
  /\ state' = st
  /\ queue' = q
  /\ created' = crt
  /\ out' = o
  /\ isProcessing' = ip
  /\ settled' = stl

EndCycleFlagKept(p, kind, st, q, crt, o) ==
  Commit(p, "save", [NoCyc EXCEPT !.snap = SerializeState(st)], st, q, crt,
         o \cup {Ev("writeFile", "", "", 0),
                 [op |-> "cycleEnd", kind |-> kind, by |-> p, ids0 |-> cyc[p].ids0,
                  failures |-> cyc[p].failures
                               \/ \E e \in o : e.op \in {"sinkFailed", "extractFailed"}]},
         isProcessing, settled)

\* the finally block of processEmailsOnce: release the flag, then saveState
\* builds the text to write and awaits the write
EndCycle(p, kind, st, q, crt, o) ==
  Commit(p, "save", [NoCyc EXCEPT !.snap = SerializeState(st)], st, q, crt,
         o \cup {Ev("writeFile", "", "", 0),
                 [op |-> "cycleEnd", kind |-> kind, by |-> p, ids0 |-> cyc[p].ids0,
                  failures |-> cyc[p].failures
                               \/ \E e \in o : e.op \in {"sinkFailed", "extractFailed"}]},
         FALSE, settled)

CycleInFlightNever == FALSE

\* the guard at the top of processEmailsOnce
CycleInFlight == isProcessing

\* processEmailsOnce after the guard: set the flag and call loadRules
BeginCycle(p, o) ==
  /\ now < env.maxTime
  /\ now' = now + 1
  /\ Commit(p, "rules",
            [NoCyc EXCEPT !.ids0 = {queue[i].id : i \in 1..Len(queue)}],
            state, queue, created,
            o \cup {Ev("cycleBegin", p, "", 0), Ev("loadRules", "", "", 0)}, TRUE,
            state.processedEmailIds)

NextItemAbortOnFailure(p, st, q, crt, o) ==
  LET rest == IF \E e \in o : e.op \in {"sinkFailed", "extractFailed"} THEN << >>
              ELSE Tail(cyc[p].todo) IN
  IF rest = << >>
  THEN EndCycle(p, "drained", [st EXCEPT !.lastProcessedTimestamp = now], q, crt,
                o \cup {Ev("processingComplete", "", "", cyc[p].matchedN)})
  ELSE Commit(p, "extract",
              [cyc[p] EXCEPT !.todo = rest, !.pending = << >>, !.cur = NoCyc.cur,
                             !.failures = @ \/ \E e \in o : e.op \in {"sinkFailed",
                                                                          "extractFailed"}],
              st, q, crt, o \cup {Ev("extract", Head(rest).id, "", 0)}, TRUE, settled)

\* the end of processQueue's loop body: take the next snapshot item, or
\* finish the cycle (watermark, processingComplete, finally)
NextItem(p, st, q, crt, o) ==
  LET rest == Tail(cyc[p].todo) IN
  IF rest = << >>
  THEN EndCycle(p, "drained", [st EXCEPT !.lastProcessedTimestamp = now], q, crt,
                o \cup {Ev("processingComplete", "", "", cyc[p].matchedN)})
  ELSE Commit(p, "extract",
              [cyc[p] EXCEPT !.todo = rest, !.pending = << >>, !.cur = NoCyc.cur,
                             !.failures = @ \/ \E e \in o : e.op \in {"sinkFailed",
                                                                          "extractFailed"}],
              st, q, crt, o \cup {Ev("extract", Head(rest).id, "", 0)}, TRUE, settled)

BelowGateNever(result) == FALSE

BelowGateInclusive(result) == result.n <= ConfidenceThreshold

\* the confidence test of processQueueItem
BelowGate(result) == result.n < ConfidenceThreshold

\* the results from the first one that reaches the sink
RECURSIVE FromFirstSinkable(_, _)
FromFirstSinkable(item, results) ==
  IF results = << >> THEN << >>
  ELSE IF BelowGate(Head(results))
       THEN FromFirstSinkable(item, Tail(results))
       ELSE IF Head(results).rule \notin item.rules
            THEN FromFirstSinkable(item, Tail(results))
            ELSE results

\* the for loop of processQueueItem, run until the next sink call or until
\* the item is done (then processQueue marks it processed)
ContinueItem(p, st, q, crt, results, o) ==
  LET item == Head(cyc[p].todo)
      rest == FromFirstSinkable(item, results)
      \* the results the loop has looked at in this step
      seen == Len(results) - Len(rest) + (IF rest = << >> THEN 0 ELSE 1)
      o2 == o \cup {results[i] : i \in 1..seen}
  IN IF rest = << >>
     THEN NextItem(p,
                   [st EXCEPT !.processedEmailIds = @ \cup {item.id},
                              !.totalEmailsProcessed = @ + 1],
                   q, crt, o2 \cup {Ev("itemDone", item.id, "", item.attempts)})
     ELSE Commit(p, "sink",
                 [cyc[p] EXCEPT !.cur = Head(rest), !.pending = Tail(rest)],
                 st, q, crt,
                 o2 \cup {Ev("sink", item.id, Head(rest).rule, Head(rest).n)},
                 TRUE, settled)

\* item.attempts++ in the catch block of processQueue
Attempted(item) == [item EXCEPT !.attempts = @ + 1]

ShouldRetryOnceMore(item) == item.attempts <= RetryAttempts

\* the retry test of processQueue
ShouldRetry(item) == item.attempts < RetryAttempts

\* the catch block of processQueue
FailItem(p, st, q, crt, o) ==
  LET item == Head(cyc[p].todo)
      failed == [Attempted(item) EXCEPT !.drains = @ + 1]
  IN IF ShouldRetry(failed)
     THEN NextItem(p, st, Append(q, failed), crt,
                   o \cup {Ev("requeue", item.id, "", failed.attempts)})
     ELSE NextItem(p, st, q, crt,
                   o \cup {[op |-> "processingFailed", id |-> item.id,
                            n |-> failed.attempts, drains |-> failed.drains]})

\* ClaudeProcessor.processMultipleEmails([email], rules) with the confidence
\* cf[r] for rule r
ProcessMultipleEmails(item, cf) ==
  LET names == SeqOfSet(RuleOrder, item.matched \cap item.rules)
  IN [i \in 1..Len(names) |-> Ev("result", item.id, names[i], cf[names[i]])]

\* fetchNewEmails: the filter applied to what the sources returned
NewEmails(st, fetched) ==
  {m \in fetched : m \notin st.processedEmailIds
                   /\ msgDate[m] > st.lastProcessedTimestamp}

\* the queue after the addToQueue loop over the matched emails
RECURSIVE AddAll(_, _, _, _)
AddAll(q, emails, rules, st) ==
  IF emails = << >> THEN q
  ELSE LET m == Head(emails) IN
       IF m \notin st.processedEmailIds
       THEN AddAll(Append(q, [id |-> m, rules |-> rules,
                              matched |-> FindMatchingRules(m, rules),
                              attempts |-> 0, drains |-> 0]),
                   Tail(emails), rules, st)
       ELSE AddAll(q, Tail(emails), rules, st)

\* loadRules answers: on a throw the catch block records the error; otherwise
\* fetchNewEmails asks every ready source
RulesDone(p) ==
  /\ pc[p] = "rules"
  /\ \/ EndCycle(p, "error",
                 [state EXCEPT !.lastErrorTimestamp = now,
                               !.lastErrorMessage = "Failed to load rules"],
                 queue, created, {Ev("processingError", "", "", 0)})
     \/ \E rules \in env.ruleFiles :
          LET asked == {s \in Sources : IsReady(s)} IN
          Commit(p, "fetch", [cyc[p] EXCEPT !.rules = rules, !.asked = asked],
                 state, queue, created,
                 {Ev("getEmails", s, "", MaxEmailsPerScan \div 2) : s \in asked},
                 TRUE, settled)
  /\ UNCHANGED <<isRunning, intervalId, orphanTimers, cfgInterval, file, client,
                 now, msgDate, env, life, reminded, server>>

EmailArraysOrNothing(returned, rejected) == IF rejected # {} THEN {} ELSE returned

\* Promise.all over the getEmails promises, each with its own catch that
\* answers [] for a rejecting source, then flat()
EmailArrays(returned, rejected) == returned

\* the sources answer, each with messages or with a rejection; filter,
\* match, enqueue, then processQueue takes its snapshot and starts on it
FetchDone(p) ==
  /\ pc[p] = "fetch"
  /\ \E rejected \in SUBSET (IF "getEmails" \in env.faults THEN cyc[p].asked ELSE {}) :
     \E returned \in SUBSET (env.mailbox
                             \cap UNION {MsgsOf(s) : s \in cyc[p].asked \ rejected}) :
       LET rules == cyc[p].rules
           fetched == EmailArrays(returned, rejected)
           allEmails == NewEmails(state, fetched)
           \* filterEmails returns its input untouched when there is no rule
           matchedEmails == {m \in allEmails : FindMatchingRules(m, rules) # {}}
           q2 == AddAll(queue, SeqOfSet(MsgOrder, matchedEmails), rules, state)
           answers == {Ev("getEmailsRejected", s, "", 0) : s \in rejected}
                      \cup {Ev("returned", m, "", 0) : m \in returned}
           enq == answers \cup {Ev("enqueue", m, "", 0) :
                                  m \in matchedEmails \ state.processedEmailIds}
       IN IF allEmails = {}
          THEN EndCycle(p, "noNewEmails", state, queue, created, answers)
          ELSE IF q2 = << >>
               THEN EndCycle(p, "drained",
                             [state EXCEPT !.lastProcessedTimestamp = now],
                             << >>, created,
                             enq \cup {Ev("processingComplete", "", "", Cardinality(matchedEmails))})
               ELSE Commit(p, "extract",
                           [cyc[p] EXCEPT !.todo = q2,
                                          !.matchedN = Cardinality(matchedEmails)],
                           state, << >>, created,
                           enq \cup {Ev("extract", Head(q2).id, "", 0)},
                           TRUE, settled)
  /\ UNCHANGED <<isRunning, intervalId, orphanTimers, cfgInterval, file, client,
                 now, msgDate, env, life, reminded, server>>

\* the message of the error a failing field extractor throws
ExtractError == "Processing failed"

\* the field extractor answers for the current item, or throws
ExtractDone(p) ==
  /\ pc[p] = "extract"
  /\ LET item == Head(cyc[p].todo) IN
     \/ ContinueItem(p, state, queue, created,
                     ProcessMultipleEmails(item, env.conf[item.id]), {})
     \/ /\ "extract" \in env.faults
        /\ FailItem(p, state, queue, created,
                    {Ev("extractFailed", item.id, ExtractError, 0)})
  /\ UNCHANGED <<isRunning, intervalId, orphanTimers, cfgInterval, file, client,
                 now, msgDate, env, life, reminded, server>>

ReminderCreatedUncounted(st) == st

\* processQueueItem on a successful sink call: count the reminder
ReminderCreated(st) == [st EXCEPT !.totalRemindersCreated = @ + 1]

\* the reminder sink answers for the current result
SinkDone(p) ==
  /\ pc[p] = "sink"
  /\ LET item == Head(cyc[p].todo)
         res == cyc[p].cur
     IN \/ ContinueItem(p, ReminderCreated(state),
                        queue,
                        [created EXCEPT ![item.id][res.rule] = Min(@ + 1, 2)],
                        cyc[p].pending,
                        {Ev("reminderCreated", item.id, res.rule, res.n)})
        \/ FailItem(p, state, queue, created, {Ev("sinkFailed", item.id, res.rule, res.n)})
  /\ UNCHANGED <<isRunning, intervalId, orphanTimers, cfgInterval, file, client,
                 now, msgDate, env, life, reminded, server>>

SaveStateThrowsOnFailure(ok) == ~ok

\* saveState catches the error of a failed write and only logs it
SaveStateThrows(ok) == FALSE

\* the write of the state file ends, done or failed; then the caller of
\* processEmailsOnce or of saveState continues
SaveDone(p) ==
  /\ pc[p] = "save"
  /\ \E ok \in {TRUE} \cup {FALSE : x \in env.faults \cap {"writeFile"}} :
       LET failed == IF ok THEN {} ELSE {Ev("writeFailed", p, "", 0)} IN
       /\ file' = IF ok THEN FileOf("json", cyc[p].snap) ELSE file
       /\ IF SaveStateThrows(ok)
          THEN /\ out' = failed \cup {Ev("rejected", p, "", 0)}
               /\ UNCHANGED <<intervalId, orphanTimers, life>>
          ELSE /\ IF p = "start"
                  THEN \* start(): this.intervalId = setInterval(...); emit started
                       /\ intervalId' = cfgInterval
                       /\ orphanTimers' = IF intervalId # 0 THEN orphanTimers + 1
                                          ELSE orphanTimers
                       /\ out' = failed \cup {Ev("setInterval", "", "", cfgInterval),
                                              Ev("started", "", "", 0)}
                  ELSE /\ UNCHANGED <<intervalId, orphanTimers>>
                       /\ out' = failed \cup (IF p = "stop" THEN {Ev("stopped", "", "", 0)}
                                              ELSE {Ev("resolved", p, "", 0)})
               /\ life' = IF p = "stop" THEN "stopResolved" ELSE life
  /\ pc' = [pc EXCEPT ![p] = "idle"]
  /\ cyc' = [cyc EXCEPT ![p] = NoCyc]
  /\ UNCHANGED <<isRunning, cfgInterval, isProcessing, queue, state, client, now,
                 msgDate, env, created, settled>>
  /\ UNCHANGED <<reminded, server>>

\* ---------------------------------------------------------------- lifecycle
AlreadyRunningNever == FALSE

\* the running check of start()
AlreadyRunning == isRunning

\* start(): the running check, then loadState reads the state file
StartCall ==
  /\ pc["start"] = "idle"
  /\ IF AlreadyRunning
     THEN /\ out' = {Ev("startNoop", "", "", 0)}
          /\ UNCHANGED pc
     ELSE /\ out' = {Ev("readFile", "", "", 0)}
          /\ pc' = [pc EXCEPT !["start"] = "load"]
  /\ UNCHANGED <<isRunning, intervalId, orphanTimers, cfgInterval, isProcessing,
                 queue, state, file, client, now, msgDate, env, cyc, created, settled>>
  /\ life' = "startCalled"
  /\ UNCHANGED <<reminded, server>>

\* loadState after the read: a missing or unparsable file leaves this.state
\* as it is; then initializeEmailClients calls initialize on every client
LoadDone ==
  /\ pc["start"] = "load"
  /\ state' = IF file.kind = "json" THEN ParseState(file.data) ELSE state
  /\ pc' = [pc EXCEPT !["start"] = "init"]
  /\ out' = {Ev("loaded", file.kind, "", 0)}
             \cup {Ev("initialize", s, "", 0) : s \in {t \in Sources : client[t] # "undefined"}}
  /\ UNCHANGED <<isRunning, intervalId, orphanTimers, cfgInterval, isProcessing,
                 queue, file, client, now, msgDate, env, cyc, created, settled, life, reminded, server>>

\* what initialize() can leave a client in: a rejection makes the daemon drop
\* the client; Gmail resolves without a token and is then not ready
InitOutcomes(s) ==
  IF "initialize" \notin env.faults THEN {"ready"}
  ELSE IF s = "gmail" THEN {"undefined", "ready", "notready"} ELSE {"undefined", "ready"}

\* the test at the end of initializeEmailClients
NoClients(cl) == \A s \in Sources : cl[s] = "undefined"

\* the initialize() promises settle; start() fails without a client,
\* otherwise it calls testAccess
InitDone ==
  /\ pc["start"] = "init"
  /\ \E cl \in [Sources -> {"undefined", "ready", "notready"}] :
       /\ \A s \in Sources :
            IF client[s] = "undefined" THEN cl[s] = "undefined"
            ELSE cl[s] \in InitOutcomes(s)
       /\ client' = cl
       /\ IF NoClients(cl)
          THEN /\ isRunning' = FALSE
               /\ pc' = [pc EXCEPT !["start"] = "idle"]
               /\ out' = {Ev("startRejected", "No email clients available", "", 0)}
          ELSE /\ UNCHANGED isRunning
               /\ pc' = [pc EXCEPT !["start"] = "test"]
               /\ out' = {Ev("testAccess", "", "", 0)}
  /\ UNCHANGED <<intervalId, orphanTimers, cfgInterval, isProcessing, queue, state,
                 file, now, msgDate, env, cyc, created, settled, life, reminded, server>>

TestAccessThrowsNever(success) == FALSE

\* testAppleRemindersAccess throws unless the access result reports success
TestAccessThrows(success) == ~success

\* testAccess answers: on failure start() rejects; on success the daemon is
\* running and the initial processEmailsOnce is called
TestDone ==
  /\ pc["start"] = "test"
  /\ \E ok \in BOOLEAN :
       IF TestAccessThrows(ok)
       THEN /\ isRunning' = FALSE
            /\ pc' = [pc EXCEPT !["start"] = "idle"]
            /\ out' = {Ev("accessResult", "", "", IF ok THEN 1 ELSE 0),
                       Ev("startRejected", "Apple Reminders not accessible", "", 0)}
            /\ UNCHANGED <<intervalId, orphanTimers, isProcessing, queue, state, now,
                           cyc, created, settled, life, reminded, server>>
       ELSE /\ isRunning' = TRUE
            /\ IF CycleInFlight
               THEN \* processEmailsOnce returns at once; arm the timer
                    /\ intervalId' = cfgInterval
                    /\ orphanTimers' = IF intervalId # 0 THEN orphanTimers + 1
                                       ELSE orphanTimers
                    /\ pc' = [pc EXCEPT !["start"] = "idle"]
                    /\ out' = {Ev("accessResult", "", "", IF ok THEN 1 ELSE 0),
                               Ev("setInterval", "", "", cfgInterval),
                               Ev("started", "", "", 0)}
                    /\ UNCHANGED <<isProcessing, queue, state, now, cyc, created,
                                   settled, life, reminded, server>>
               ELSE /\ BeginCycle("start", {Ev("accessResult", "", "", IF ok THEN 1 ELSE 0)})
                    /\ UNCHANGED <<intervalId, orphanTimers>>
  /\ UNCHANGED <<cfgInterval, file, client, msgDate, env, life, reminded, server>>

StopNotRunningNever == FALSE

\* the running check of stop()
StopNotRunning == ~isRunning

\* stop(): mark stopped, clear the timer, then wait for isProcessing or save
StopCall ==
  /\ pc["stop"] = "idle"
  /\ IF StopNotRunning
     THEN /\ out' = {Ev("stopNoop", "", "", 0)}
          /\ UNCHANGED <<isRunning, intervalId, pc, cyc>>
     ELSE /\ isRunning' = FALSE
          /\ intervalId' = 0
          /\ IF isProcessing
             THEN /\ pc' = [pc EXCEPT !["stop"] = "wait"]
                  /\ out' = {Ev("clearInterval", "", "", intervalId)}
                  /\ UNCHANGED cyc
             ELSE /\ pc' = [pc EXCEPT !["stop"] = "save"]
                  /\ cyc' = [cyc EXCEPT !["stop"] = [NoCyc EXCEPT !.snap = SerializeState(state)]]
                  /\ out' = {Ev("clearInterval", "", "", intervalId),
                             Ev("writeFile", "", "", 0)}
  /\ UNCHANGED <<orphanTimers, cfgInterval, isProcessing, queue, state, file, client,
                 now, msgDate, env, created, settled, life, reminded, server>>

StopWaitOverAtOnce == TRUE

\* the test of stop()'s wait loop
StopWaitOver == ~isProcessing

\* stop(): a poll of the wait loop finds isProcessing false; saveState
StopPoll ==
  /\ pc["stop"] = "wait"
  /\ StopWaitOver
  /\ pc' = [pc EXCEPT !["stop"] = "save"]
  /\ cyc' = [cyc EXCEPT !["stop"] = [NoCyc EXCEPT !.snap = SerializeState(state)]]
  /\ out' = {Ev("writeFile", "", "", 0)}
  /\ UNCHANGED <<isRunning, intervalId, orphanTimers, cfgInterval, isProcessing,
                 queue, state, file, client, now, msgDate, env, created, settled, life, reminded, server>>

NotRunningNever == FALSE

\* the running check of forceProcessing()
NotRunning == ~isRunning

\* forceProcessing(): throws when not running, else processEmailsOnce, which
\* returns at once when a cycle is in flight
ForceCall ==
  /\ pc["force"] = "idle"
  /\ IF NotRunning
     THEN /\ out' = {Ev("forceRejected", "Daemon is not running", "", 0)}
          /\ UNCHANGED <<pc, cyc, isProcessing, queue, state, now, created, settled, life, reminded, server>>
     ELSE IF CycleInFlight
          THEN /\ out' = {Ev("forceSkipped", "", "", 0)}
               /\ UNCHANGED <<pc, cyc, isProcessing, queue, state, now, created, settled, life, reminded, server>>
          ELSE BeginCycle("force", {})
  /\ UNCHANGED <<isRunning, intervalId, orphanTimers, cfgInterval, file, client,
                 msgDate, env, life, reminded, server>>

\* the setInterval callback of an armed timer
TimerTick ==
  /\ pc["tick"] = "idle"
  /\ intervalId # 0 \/ orphanTimers > 0
  /\ IF ~isProcessing /\ ~CycleInFlight
     THEN BeginCycle("tick", {})
     ELSE /\ out' = {Ev("tickSkipped", "", "", 0)}
          /\ UNCHANGED <<pc, cyc, isProcessing, queue, state, now, created, settled, life, reminded, server>>
  /\ UNCHANGED <<isRunning, intervalId, orphanTimers, cfgInterval, file, client,
                 msgDate, env, life, reminded, server>>

\* getStats().lastError
LastError ==
  IF state.lastErrorTimestamp # 0 /\ state.lastErrorMessage # ""
  THEN [defined |-> TRUE, timestamp |-> state.lastErrorTimestamp,
        message |-> state.lastErrorMessage]
  ELSE [defined |-> FALSE, timestamp |-> 0, message |-> ""]

\* updateConfig({intervalMinutes: iv})
UpdateConfig ==
  \E iv \in env.intervals :
    /\ cfgInterval' = iv
    /\ IF isRunning /\ intervalId # 0
       THEN /\ intervalId' = iv
            /\ out' = {Ev("clearInterval", "", "", intervalId),
                       Ev("setInterval", "", "", iv)}
       ELSE /\ UNCHANGED intervalId
            /\ out' = {}
    /\ UNCHANGED <<isRunning, orphanTimers, isProcessing, queue, state, file, client,
                   now, msgDate, env, pc, cyc, created, settled, life, reminded, server>>

\* the process is killed and a new one constructs a daemon; a write of the
\* state file that was under way has happened, has not, or has left a
\* truncated file
Crash ==
  /\ isRunning' = FALSE
  /\ intervalId' = 0
  /\ orphanTimers' = 0
  /\ cfgInterval' = DefaultInterval
  /\ isProcessing' = FALSE
  /\ queue' = << >>
  /\ state' = EmptyState
  /\ client' = NewClients(env.enabled)
  /\ pc' = [p \in Procs |-> "idle"]
  /\ cyc' = [p \in Procs |-> NoCyc]
  /\ file' \in {file} \cup UNION {{FileOf("json", cyc[p].snap), FileOf("garbage", file.data)} :
                                   p \in {q \in Procs : pc[q] = "save"}}
  /\ out' = {Ev("crash", "", "", 0)}
  /\ settled' = {}
  /\ life' = "constructed"
  /\ reminded' = {m \in Msgs : \E r \in Rules : created[m][r] > 0}
  /\ UNCHANGED server
  /\ UNCHANGED <<now, msgDate, env, created>>

Next ==
  \/ StartCall
  \/ LoadDone
  \/ InitDone
  \/ TestDone
  \/ StopCall
  \/ StopPoll
  \/ ForceCall
  \/ TimerTick
  \/ UpdateConfig
  \/ \E p \in Procs : RulesDone(p)
  \/ \E p \in Procs : FetchDone(p)
  \/ \E p \in Procs : ExtractDone(p)
  \/ \E p \in Procs : SinkDone(p)
  \/ \E p \in Procs : SaveDone(p)

Spec == Init /\ [][Next]_vars

\* every collaborator call of a cycle returns or throws, every write of the
\* state file ends, and the wait loop of stop() keeps polling
Fairness ==
  /\ \A p \in Procs : /\ WF_vars(RulesDone(p))
                      /\ WF_vars(FetchDone(p))
                      /\ WF_vars(ExtractDone(p))
                      /\ WF_vars(SinkDone(p))
                      /\ WF_vars(SaveDone(p))
  /\ WF_vars(StopPoll)

\* the daemon driven by start(), stop() and its timer
NextLive ==
  \/ StartCall
  \/ LoadDone
  \/ InitDone
  \/ TestDone
  \/ StopCall
  \/ StopPoll
  \/ TimerTick
  \/ \E p \in Procs : RulesDone(p)
  \/ \E p \in Procs : FetchDone(p)
  \/ \E p \in Procs : ExtractDone(p)
  \/ \E p \in Procs : SinkDone(p)
  \/ \E p \in Procs : SaveDone(p)

SpecLive == Init /\ [][NextLive]_vars /\ Fairness

\* the daemon driven by start() and forceProcessing() only
NextQueue ==
  \/ StartCall
  \/ LoadDone
  \/ InitDone
  \/ TestDone
  \/ ForceCall
  \/ \E p \in Procs : RulesDone(p)
  \/ \E p \in Procs : FetchDone(p)
  \/ \E p \in Procs : ExtractDone(p)
  \/ \E p \in Procs : SinkDone(p)
  \/ \E p \in Procs : SaveDone(p)

SpecQueue == InitQueue /\ [][NextQueue]_vars

\* only Gmail is configured; the state file is missing or not JSON; state
\* writes and the field extractor can fail
InitFaults ==
  /\ client = NewClients({"gmail"})
  /\ msgDate = [m \in Msgs |-> Future]
  /\ env = [enabled |-> {"gmail"}, mailbox |-> {"g1"}, ruleFiles |-> {{"r1"}},
            conf |-> [m \in Msgs |-> [r \in Rules |-> 85]],
            intervals |-> {DefaultInterval}, maxTime |-> MaxLifeTime,
            faults |-> {"writeFile", "extract"}, files |-> {"ENOENT", "garbage"}]
  /\ InitDaemon

\* the daemon driven by start(), stop() and forceProcessing(), with crashes
NextFaults ==
  \/ StartCall
  \/ LoadDone
  \/ InitDone
  \/ TestDone
  \/ StopCall
  \/ StopPoll
  \/ ForceCall
  \/ Crash
  \/ \E p \in Procs : RulesDone(p)
  \/ \E p \in Procs : FetchDone(p)
  \/ \E p \in Procs : ExtractDone(p)
  \/ \E p \in Procs : SinkDone(p)
  \/ \E p \in Procs : SaveDone(p)

SpecFaults == InitFaults /\ [][NextFaults]_vars

\* both sources are configured; either initialize() can reject and either
\* getEmails() can reject; each mailbox holds one message and the rule file
\* one rule
InitRestart ==
  /\ client = NewClients(Sources)
  /\ msgDate = [m \in Msgs |-> Future]
  /\ env = [enabled |-> Sources, mailbox |-> Msgs, ruleFiles |-> {{"r1"}},
            conf |-> [m \in Msgs |-> [r \in Rules |-> 85]],
            intervals |-> {DefaultInterval}, maxTime |-> MaxLifeTime,
            faults |-> {"initialize", "getEmails"}, files |-> {"ENOENT"}]
  /\ InitDaemon

\* the daemon started and stopped again and again, with the initial cycle of
\* each start()
NextRestart ==
  \/ StartCall
  \/ LoadDone
  \/ InitDone
  \/ TestDone
  \/ StopCall
  \/ StopPoll
  \/ \E p \in Procs : RulesDone(p)
  \/ \E p \in Procs : FetchDone(p)
  \/ \E p \in Procs : ExtractDone(p)
  \/ \E p \in Procs : SinkDone(p)
  \/ \E p \in Procs : SaveDone(p)

SpecRestart == InitRestart /\ [][NextRestart]_vars

\* ------------------------------------------------------ reminder due date
\* instants are integers; a day has DayLength of them and a time of day is
\* an offset into the day
DayLength == 4

\* Date.setHours(hours, minutes, 0, 0): the same day, at time of day t
SetHours(x, t) == (x \div DayLength) * DayLength + t

\* Date.setDate(getDate() + k): k days later (earlier for negative k)
AddDays(x, k) == x + k * DayLength

\* createReminderFromExtractedData: the due date for the extracted date d,
\* daysBeforeReminder n and timeOfDay t, when the clock shows nw
DueDate(d, n, t, nw) ==
  LET dueDate == SetHours(AddDays(d, 0 - n), t)
  IN IF dueDate < nw THEN SetHours(AddDays(nw, 1), t) ELSE dueDate

\* the clock shows any instant of the first days; no daemon is started
InitDue ==
  /\ client = NewClients({})
  /\ msgDate = [m \in Msgs |-> Future]
  /\ env = [enabled |-> {}, mailbox |-> {}, ruleFiles |-> {{}},
            conf |-> [m \in Msgs |-> [r \in Rules |-> 85]],
            intervals |-> {DefaultInterval}, maxTime |-> MaxDay * DayLength,
            faults |-> {}, files |-> {"ENOENT"}]
  /\ isRunning = FALSE
  /\ intervalId = 0
  /\ orphanTimers = 0
  /\ cfgInterval = DefaultInterval
  /\ isProcessing = FALSE
  /\ queue = << >>
  /\ state = EmptyState
  /\ file = FileOf("ENOENT", SerializeState(EmptyState))
  /\ now \in 0..(MaxDay * DayLength)
  /\ pc = [p \in Procs |-> "idle"]
  /\ cyc = [p \in Procs |-> NoCyc]
  /\ out = {}
  /\ created = [m \in Msgs |-> [r \in Rules |-> 0]]
  /\ settled = {}
  /\ life = "constructed"
  /\ reminded = {}
  /\ server = NoServer

\* AppleReminders.createReminderFromExtractedData for an extracted date, a
\* number of days before and a time of day
CreateReminderFromExtractedData ==
  \E d \in 0..(MaxDay * DayLength), n \in 0..MaxDaysBefore, t \in 0..(DayLength - 1) :
    /\ out' = {[op |-> "createReminder", d |-> d, daysBefore |-> n, timeOfDay |-> t,
                dueDate |-> DueDate(d, n, t, now)]}
    /\ UNCHANGED <<isRunning, intervalId, orphanTimers, cfgInterval, isProcessing,
                   queue, state, file, client, now, msgDate, env, pc, cyc, created,
                   settled, life, reminded, server>>

NextDue == CreateReminderFromExtractedData

SpecDue == InitDue /\ [][NextDue]_vars

\* ------------------------------------------------------------- MCP server
\* an EmailDaemon as the server sees it: the running flag, whether its timer
\* is armed, the in-flight flag, and whether its start() is still on its way
NewDaemon == [isRunning |-> FALSE, timer |-> FALSE, isProcessing |-> FALSE,
              start |-> "awaiting"]

DaemonIds == 1..Len(server.daemons)

\* this.daemon?.isRunning()
HasRunningDaemon ==
  /\ server.current # 0
  /\ server.daemons[server.current].isRunning

\* no tool has been called; the daemon of the other specifications is not
\* constructed by them
InitServer ==
  /\ client = NewClients({})
  /\ msgDate = [m \in Msgs |-> Future]
  /\ env = [enabled |-> {}, mailbox |-> {}, ruleFiles |-> {{}},
            conf |-> [m \in Msgs |-> [r \in Rules |-> 85]],
            intervals |-> {DefaultInterval}, maxTime |-> MaxLifeTime,
            faults |-> {}, files |-> {"ENOENT"}]
  /\ InitDaemon

\* a step of the server or of one of its daemons: the daemon of the other
\* specifications stays as it is
ServerStep(srv, o) ==
  /\ server' = srv
  /\ out' = o
  /\ UNCHANGED <<isRunning, intervalId, orphanTimers, cfgInterval, isProcessing,
                 queue, state, file, client, now, msgDate, env, pc, cyc, created,
                 settled, life, reminded>>

\* tool start_daemon: answer "already running", or create a daemon, store
\* it in this.daemon and call its start()
StartDaemon ==
  IF HasRunningDaemon
  THEN ServerStep(server, {Ev("alreadyRunning", "", "", server.current)})
  ELSE /\ Len(server.daemons) < MaxDaemons
       /\ ServerStep([daemons |-> Append(server.daemons, NewDaemon),
                      current |-> Len(server.daemons) + 1],
                     {Ev("newDaemon", "", "", Len(server.daemons) + 1)})

\* start() of daemon i gets through loadState, initialize and testAccess:
\* it rejects, or sets _isRunning and begins the initial cycle
DaemonStartChecked(i) ==
  /\ server.daemons[i].start = "awaiting"
  /\ \/ ServerStep([server EXCEPT !.daemons[i].start = "idle"],
                   {Ev("startRejected", "", "", i)})
     \/ ServerStep([server EXCEPT !.daemons[i].isRunning = TRUE,
                                  !.daemons[i].isProcessing = TRUE,
                                  !.daemons[i].start = "cycle"],
                   {Ev("cycleBegin", "start", "", i)})

\* a cycle of daemon i ends; after its initial cycle start() arms the timer
DaemonCycleEnd(i) ==
  /\ server.daemons[i].isProcessing
  /\ IF server.daemons[i].start = "cycle"
     THEN ServerStep([server EXCEPT !.daemons[i].isProcessing = FALSE,
                                    !.daemons[i].timer = TRUE,
                                    !.daemons[i].start = "idle"],
                     {Ev("setInterval", "", "", i), Ev("started", "", "", i)})
     ELSE ServerStep([server EXCEPT !.daemons[i].isProcessing = FALSE],
                     {Ev("cycleEnd", "", "", i)})

\* the timer of daemon i fires
DaemonTick(i) ==
  /\ server.daemons[i].timer
  /\ IF server.daemons[i].isProcessing
     THEN ServerStep(server, {Ev("tickSkipped", "", "", i)})
     ELSE ServerStep([server EXCEPT !.daemons[i].isProcessing = TRUE],
                     {Ev("cycleBegin", "tick", "", i)})

\* tool stop_daemon: answer "not running", or call stop() of this.daemon,
\* which clears the running flag and the timer
StopDaemon ==
  IF ~HasRunningDaemon
  THEN ServerStep(server, {Ev("notRunning", "stop_daemon", "", server.current)})
  ELSE ServerStep([server EXCEPT !.daemons[server.current].isRunning = FALSE,
                                 !.daemons[server.current].timer = FALSE],
                  {Ev("clearInterval", "", "", server.current)})

\* tool force_processing: answer "not running", or call forceProcessing()
\* of this.daemon, which runs a cycle unless one is in flight
ForceProcessing ==
  IF ~HasRunningDaemon
  THEN ServerStep(server, {Ev("notRunning", "force_processing", "", server.current)})
  ELSE IF server.daemons[server.current].isProcessing
       THEN ServerStep(server, {Ev("forceSkipped", "", "", server.current)})
       ELSE ServerStep([server EXCEPT !.daemons[server.current].isProcessing = TRUE],
                       {Ev("cycleBegin", "force", "", server.current)})

NextServer ==
  \/ StartDaemon
  \/ StopDaemon
  \/ ForceProcessing
  \/ \E i \in DaemonIds : DaemonStartChecked(i)
  \/ \E i \in DaemonIds : DaemonCycleEnd(i)
  \/ \E i \in DaemonIds : DaemonTick(i)

SpecServer == InitServer /\ [][NextServer]_vars

\* processes inside the guarded part of processEmailsOnce
InCycle == {p \in Procs : pc[p] \in {"rules", "fetch", "extract", "sink"}}

TypeOK ==
  /\ isRunning \in BOOLEAN
  /\ isProcessing \in BOOLEAN
  /\ intervalId \in {0} \cup Intervals
  /\ now \in 0..env.maxTime

\* -------------------------------------------------------------- properties
NoReminderFor(id) == \A r \in Rules : created[id][r] = 0

\* C1: a message whose id was in processedEmailIds when a cycle began is, in
\* that cycle, neither handed to the field extractor nor to the reminder
\* sink, and is neither enqueued nor put back into the queue.
C1_IdempotentDedup ==
  \A o \in out :
    o.op \in {"extract", "sink", "enqueue", "requeue"} => o.id \notin settled

C3_ExactlyOnce ==
  \A m \in Msgs : \A r \in Rules : created[m][r] <= 1

\* C4: no queue item has attempts >= retryAttempts, an item has failed in as
\* many drains as its attempts say, processingFailed carries attempts =
\* retryAttempts and comes on the retryAttempts-th failing drain of the item,
\* which is then not put back; and when the sink never succeeded for the
\* message its id is not in processedEmailIds.
C4_RetryBound ==
  /\ \A i \in 1..Len(queue) :
       queue[i].attempts < RetryAttempts /\ queue[i].drains = queue[i].attempts
  /\ \A o \in out :
       o.op = "processingFailed" =>
         /\ o.n = RetryAttempts
         /\ o.drains = RetryAttempts
         /\ \A e \in out : e.op # "requeue"
         /\ NoReminderFor(o.id) => o.id \notin state.processedEmailIds

\* processingFailed has just been emitted for a message the sink never
\* accepted
C4_Exhausted ==
  \E o \in out : o.op = "processingFailed" /\ NoReminderFor(o.id)

\* C5: a cycle that began with items in the queue and loaded the rules drains
\* the queue, whether or not it fetched a new message.
C5_RetryProgress ==
  \A o \in out :
    (o.op = "cycleEnd" /\ o.kind # "error" /\ o.ids0 # {}) => o.kind = "drained"

\* C6: a forceProcessing() cycle that began with items left by an earlier
\* failed attempt, loaded the rules and met no sink failure ends with an empty
\* queue and with the ids of those items in processedEmailIds.
C6_RetryRecovery ==
  \A o \in out :
    (o.op = "cycleEnd" /\ o.by = "force" /\ o.kind # "error" /\ o.ids0 # {}
       /\ ~o.failures)
    => /\ queue = << >>
       /\ o.ids0 \subseteq state.processedEmailIds

\* C7: an extraction result the item loop looks at is handed to the reminder
\* sink if and only if its confidence is at least 25, and nothing else is
\* handed to the sink.
C7_ConfidenceGate ==
  /\ \A o \in out :
       o.op = "result" =>
         (o.n >= 25 <=> Ev("sink", o.id, o.rule, o.n) \in out)
  /\ \A o \in out :
       o.op = "sink" => o.n >= 25 /\ Ev("result", o.id, o.rule, o.n) \in out

\* one step skipped a result of confidence 24 and handed one of confidence 25
\* to the sink
C7_BothSidesOfGate ==
  /\ \E o \in out : o.op = "result" /\ o.n = 24
  /\ \E o \in out : o.op = "sink" /\ o.n = 25

\* C8: start() gets past the initialization of the mail sources only if some
\* source is ready; otherwise it rejects, the daemon is not running and
\* start() begins no cycle and arms no timer.
C8_NoUsableSource ==
  (\A s \in Sources : ~IsReady(s)) =>
    /\ pc["start"] \notin {"test", "rules", "fetch", "extract", "sink", "save"}
    /\ ~isRunning
    /\ \A o \in out : o.op \notin {"testAccess", "setInterval", "started"}

\* C9: when testAccess reports success = false, start() rejects, the daemon
\* is not running, and this start() begins no cycle and arms no timer.
C9_UnreachableSink ==
  \A o \in out :
    (o.op = "accessResult" /\ o.n = 0) =>
      /\ Ev("startRejected", "Apple Reminders not accessible", "", 0) \in out
      /\ ~isRunning
      /\ pc["start"] = "idle"
      /\ \A e \in out : e.op \notin {"cycleBegin", "setInterval", "started"}

\* testAccess has just reported success = false
C9_AccessDenied ==
  \E o \in out : o.op = "accessResult" /\ o.n = 0

\* C10: from the moment stop() resolves until start() is called again, the
\* daemon is not running, no timer is armed and no cycle is in flight.
C10_Stopped ==
  life = "stopResolved" =>
    /\ ~isRunning
    /\ intervalId = 0
    /\ orphanTimers = 0
    /\ InCycle = {}

\* a step in which start() is called
StartCalled ==
  \/ out' = {Ev("startNoop", "", "", 0)} /\ pc["start"] = "idle"
  \/ out' = {Ev("readFile", "", "", 0)}

\* C11: start() on a running daemon does not read the state file, does not
\* initialize a mail source, begins no cycle and arms no timer: nothing but
\* the warning happens.
C11_StartWhenRunning ==
  [][(isRunning /\ StartCalled) =>
       /\ out' = {Ev("startNoop", "", "", 0)}
       /\ UNCHANGED <<isRunning, intervalId, orphanTimers, cfgInterval, isProcessing,
                      queue, state, file, client, now, pc, cyc>>]_vars

\* start() has just been called on a running daemon
C11_CalledWhileRunning ==
  /\ isRunning
  /\ Ev("startNoop", "", "", 0) \in out

\* a step in which forceProcessing() is called
ForceCalled ==
  /\ pc["force"] = "idle"
  /\ \/ out' = {Ev("forceRejected", "Daemon is not running", "", 0)}
     \/ out' = {Ev("forceSkipped", "", "", 0)}
     \/ Ev("cycleBegin", "force", "", 0) \in out'

\* C12: forceProcessing() on a daemon that is not running throws 'Daemon is
\* not running' and changes nothing: no cycle begins, queue, state and state
\* file stay as they are.
C12_ForceWhenStopped ==
  [][(~isRunning /\ ForceCalled) =>
       /\ out' = {Ev("forceRejected", "Daemon is not running", "", 0)}
       /\ UNCHANGED <<isRunning, intervalId, orphanTimers, cfgInterval, isProcessing,
                      queue, state, file, client, now, pc, cyc>>]_vars

\* forceProcessing() has just been called on a stopped daemon that had
\* processed a message
C12_RejectedAfterWork ==
  /\ ~isRunning
  /\ Ev("forceRejected", "Daemon is not running", "", 0) \in out
  /\ state.processedEmailIds # {}

\* C13: a forceProcessing() call on a running daemon never resolves without
\* having run a cycle of its own, also when another cycle is in progress.
C13_ForceRunsCycle ==
  \A o \in out : o.op # "forceSkipped"

\* a step in which a cycle ends in the catch block
CycleFailed ==
  /\ out' # out
  /\ \E o \in out' : o.op = "cycleEnd" /\ o.kind = "error"

\* C14: when loadRules throws, the catch block records lastErrorTimestamp and
\* lastErrorMessage and emits processingError, the in-flight flag is
\* released, the caller is not rejected (it goes on to the state write), and
\* isRunning, the timer and the queue are left as they were, so a later tick
\* or forceProcessing() begins a new cycle.
C14_CycleFailure ==
  [][CycleFailed =>
       /\ state'.lastErrorTimestamp = now
       /\ state'.lastErrorMessage = "Failed to load rules"
       /\ Ev("processingError", "", "", 0) \in out'
       /\ ~isProcessing'
       /\ \A o \in out' : o.op = "cycleEnd" => pc'[o.by] = "save"
       /\ \A e \in out' : e.op \notin {"forceRejected", "startRejected"}
       /\ UNCHANGED <<isRunning, intervalId, orphanTimers, queue>>]_vars

\* a new cycle has just begun on a daemon that recorded a cycle failure
C14_CycleAfterFailure ==
  /\ state.lastErrorMessage = "Failed to load rules"
  /\ isRunning /\ intervalId # 0
  /\ \E o \in out : o.op = "cycleBegin" /\ o.id \in {"force", "tick"}

C19_OneProcessingComplete ==
  \A o \in out :
    (o.op = "cycleEnd" /\ o.kind # "error") =>
      /\ Cardinality({e \in out : e.op = "processingComplete"}) = 1
      /\ o.kind = "noNewEmails" => Ev("processingComplete", "", "", 0) \in out

\* C15: when start() has read a state file that is not JSON, start() goes on
\* and the daemon's state is the default empty state, whatever it held
\* before.
C15_CorruptState ==
  \A o \in out :
    (o.op = "loaded" /\ o.id = "garbage") =>
      /\ pc["start"] = "init"
      /\ state.processedEmailIds = {}
      /\ state.totalEmailsProcessed = 0
      /\ state.totalRemindersCreated = 0

\* C17: on one daemon instance no step takes an id out of processedEmailIds.
C17_AppendOnly ==
  [][Ev("crash", "", "", 0) \notin out' =>
       state.processedEmailIds \subseteq state'.processedEmailIds]_vars

\* C18: a message that had a reminder when the process was killed gets no
\* further reminder from the daemon started afterwards.
C18_CrashSafety ==
  \A o \in out : o.op = "reminderCreated" => o.id \notin reminded

\* C20: when the field extractor has thrown for a queue item, getStats()
\* reports lastError with that error's message and the time of the cycle.
C20_ExtractorErrorInStats ==
  \A o \in out :
    o.op = "extractFailed" =>
      /\ LastError.defined
      /\ LastError.message = o.rule
      /\ LastError.timestamp = now

\* C21: a successful sink call emits exactly one reminderCreated, carrying the
\* message id, the rule name and the confidence of the result, and adds one
\* to totalRemindersCreated; when the item is then done its id is in
\* processedEmailIds and totalEmailsProcessed has grown by one
C21_SuccessCounters ==
  [][\A p \in Procs :
       (pc[p] = "sink" /\ \E e \in out' : e.op = "reminderCreated") =>
         /\ {e \in out' : e.op = "reminderCreated"}
              = {Ev("reminderCreated", Head(cyc[p].todo).id, cyc[p].cur.rule, cyc[p].cur.n)}
         /\ state'.totalRemindersCreated = state.totalRemindersCreated + 1
         /\ \A d \in out' : d.op = "itemDone" =>
              /\ d.id = Head(cyc[p].todo).id
              /\ d.id \in state'.processedEmailIds
              /\ state'.totalEmailsProcessed = state.totalEmailsProcessed + 1]_vars

C21_ReminderAndItemDone ==
  \E e \in out :
    /\ e.op = "reminderCreated"
    /\ Ev("itemDone", e.id, "", 0) \in out
    /\ e.id \in state.processedEmailIds
    /\ state.totalRemindersCreated = 1
    /\ state.totalEmailsProcessed = 1

\* a step in which stop() is called
StopCalled ==
  /\ pc["stop"] = "idle"
  /\ \/ out' = {Ev("stopNoop", "", "", 0)}
     \/ /\ \E e \in out' : e.op = "clearInterval"
        /\ \A e \in out' : e.op # "setInterval"

\* C22: stop() on a daemon that is not running does nothing: no state file
\* write, no stopped event, and state, queue and timer stay as they are
C22_StopWhenNotRunning ==
  [][(~isRunning /\ StopCalled) =>
       /\ out' = {Ev("stopNoop", "", "", 0)}
       /\ UNCHANGED <<isRunning, intervalId, orphanTimers, cfgInterval, isProcessing,
                      queue, state, file, client, now, pc, cyc>>]_vars

C22_StoppedTwice ==
  /\ out = {Ev("stopNoop", "", "", 0)}
  /\ life = "stopResolved"
  /\ state.totalEmailsProcessed > 0

\* C23: only active rules produce work: no message is in the queue on
\* account of paused or disabled rules alone, and the reminder sink is never
\* called for a rule that is paused or disabled
C23_OnlyActiveRules ==
  /\ \A i \in 1..Len(queue) : \E r \in queue[i].matched : Status(r) = "active"
  /\ \A o \in out : o.op = "sink" => Status(o.rule) = "active"

\* C24: the processing queue never holds two items with the same message id
C24_NoDuplicateEntries ==
  \A i, j \in 1..Len(queue) : queue[i].id = queue[j].id => i = j

\* C25: a result of confidence below 25 is not a failure: no sink failure
\* stems from such a result, the step that skips it neither re-appends the
\* item nor emits processingFailed, and the item goes on to its next result
\* or is marked processed with its attempts counter as it was
C25_LowConfidenceNotFailure ==
  /\ \A o \in out : o.op = "sinkFailed" => o.n >= ConfidenceThreshold
  /\ \A o \in out : (o.op = "result" /\ o.n < ConfidenceThreshold) =>
       /\ \A e \in out : e.op \notin {"requeue", "processingFailed"}
       /\ \/ \E e \in out : e.op = "sink" /\ e.id = o.id /\ e.rule # o.rule
          \/ /\ \E e \in out : e.op = "itemDone" /\ e.id = o.id
             /\ o.id \in state.processedEmailIds

C25_AllResultsLow ==
  \E o \in out :
    /\ o.op = "result" /\ o.n < ConfidenceThreshold
    /\ Ev("itemDone", o.id, "", 0) \in out
    /\ \A e \in out : e.op # "reminderCreated"
    /\ \A r \in Rules : created[o.id][r] = 0

C27_FetchIsolation ==
  [][\A p \in Procs :
       (pc[p] = "fetch" /\ \E e \in out' : e.op = "getEmailsRejected") =>
         /\ \A e \in out' : /\ e.op # "processingError"
                            /\ e.op = "cycleEnd" => e.kind # "error"
         /\ state'.lastErrorMessage = state.lastErrorMessage
         /\ state'.lastErrorTimestamp = state.lastErrorTimestamp
         /\ \A e \in out' :
              (/\ e.op = "returned"
               /\ NewEmails(state, {e.id}) # {}
               /\ FindMatchingRules(e.id, cyc[p].rules) # {}) =>
                /\ Ev("enqueue", e.id, "", 0) \in out'
                /\ pc'[p] = "extract"
                /\ \E i \in 1..Len(cyc'[p].todo) : cyc'[p].todo[i].id = e.id]_vars

C27_OtherSourceProcessed ==
  \E p \in Procs :
    /\ pc[p] = "extract"
    /\ Ev("getEmailsRejected", "gmail", "", 0) \in out
    /\ Ev("returned", "icloud_1", "", 0) \in out
    /\ Ev("enqueue", "icloud_1", "", 0) \in out
    /\ Ev("extract", "icloud_1", "", 0) \in out

\* C28: at the end of a cycle the state is written to the state file before
\* processingComplete or processingError is emitted: when either event is
\* emitted the state file holds the state and no write of it is still to come
C28_PersistBeforeEmit ==
  \A o \in out : o.op \in {"processingComplete", "processingError"} =>
    /\ file = FileOf("json", SerializeState(state))
    /\ \A e \in out : e.op # "writeFile"

\* C29: every cycle that ends without a cycle-level error sets
\* lastProcessedTimestamp to the current time, so within a run the watermark
\* never decreases; and no message dated at or before the watermark of the
\* fetch is enqueued
C29_Watermark ==
  [][/\ \A o \in out' : (o.op = "cycleEnd" /\ o.kind # "error") =>
                          state'.lastProcessedTimestamp = now'
     /\ (\A o \in out' : o.op # "loaded") =>
          state'.lastProcessedTimestamp >= state.lastProcessedTimestamp
     /\ \A o \in out' : o.op = "enqueue" =>
          msgDate[o.id] > state.lastProcessedTimestamp]_vars

\* C30: a source whose initialize() rejected is left out for one run only:
\* start() fails for want of clients only when no source is left, a source
\* that is not ready is never fetched from, and a start() that follows a
\* resolved stop() (the state file has been written and no stop() is under
\* way) calls initialize() on every configured source again
C30_InitFailureScopedToRun ==
  /\ \A o \in out : (o.op = "startRejected" /\ o.id = "No email clients available") =>
       NoClients(client)
  /\ \A o \in out : o.op = "getEmails" => IsReady(o.id)
  /\ \A o \in out : (o.op = "loaded" /\ o.id = "json" /\ pc["stop"] = "idle") =>
       \A s \in env.enabled : Ev("initialize", s, "", 0) \in out

\* C31: in a cycle every ready source is asked for
\* floor(maxEmailsPerScan / number of ready sources) messages, a single
\* ready source for maxEmailsPerScan, and the limits sum to at most
\* maxEmailsPerScan
C31_FetchLimit ==
  LET calls == {o \in out : o.op = "getEmails"} IN
  /\ \A o \in calls : /\ o.id \in {s \in Sources : IsReady(s)}
                      /\ o.n = MaxEmailsPerScan \div Cardinality(calls)
  /\ \A o \in calls : o.n * Cardinality(calls) <= MaxEmailsPerScan

\* C32: the state file is written only at the end of a cycle or in stop();
\* the text to write is that of the daemon state at that moment, taken when
\* no cycle is between its enqueue and the end of its drain, and the file
\* only ever changes to such a text
C32_SnapshotsCycleConsistent ==
  [][/\ (\E o \in out' : o.op = "writeFile") =>
          \E p \in Procs :
            /\ pc[p] # "save" /\ pc'[p] = "save"
            /\ cyc'[p].snap = SerializeState(state')
            /\ \/ p = "stop"
               \/ \E o \in out' : o.op = "cycleEnd" /\ o.by = p
            /\ \A q \in Procs : pc'[q] \notin {"extract", "sink"}
     /\ file' # file =>
          \E p \in Procs : /\ pc[p] = "save" /\ pc'[p] = "idle"
                           /\ file' = FileOf("json", cyc[p].snap)]_vars

\* stop() has waited for a cycle with a reminder and now writes the state
C32_StopWritesAfterCycle ==
  /\ pc["stop"] = "save"
  /\ out = {Ev("writeFile", "", "", 0)}
  /\ state.totalRemindersCreated > 0
  /\ file.kind = "json"
  /\ file.data # cyc["stop"].snap

\* C33: a failed write of the state file is not fatal: the operation that
\* awaited it resolves, the state in memory, the queue and the running flag
\* are as they were (a daemon running after a cycle stays running, the flag
\* stop() cleared stays cleared), no second write is issued, and stop()
\* resolves and emits stopped
C33_WriteFailureNotFatal ==
  [][\A p \in Procs :
       (pc[p] = "save" /\ Ev("writeFailed", p, "", 0) \in out') =>
         /\ pc'[p] = "idle"
         /\ \A o \in out' : o.op \notin {"rejected", "writeFile"}
         /\ UNCHANGED <<state, queue, isRunning, isProcessing, file>>
         /\ p = "stop" => Ev("stopped", "", "", 0) \in out' /\ life' = "stopResolved"
         /\ p = "start" => Ev("started", "", "", 0) \in out'
         /\ p = "force" => Ev("resolved", p, "", 0) \in out']_vars

\* the write at the end of stop() has failed after a cycle had processed a
\* message
C33_StopWriteFailed ==
  /\ Ev("writeFailed", "stop", "", 0) \in out
  /\ Ev("stopped", "", "", 0) \in out
  /\ ~isRunning
  /\ state.totalEmailsProcessed > 0
  /\ file.kind # "json"

\* a step in which updateConfig({intervalMinutes}) is called
UpdateConfigCalled ==
  \/ out' = {}
  \/ /\ \E e \in out' : e.op = "clearInterval"
     /\ \E e \in out' : e.op = "setInterval"

\* C35: at most one repeating timer is armed, whatever start(), stop(),
\* forceProcessing() and updateConfig() do; updateConfig({intervalMinutes})
\* on a running daemon with a timer replaces it by one at the new interval,
\* and on a stopped daemon arms none
C35_OneTimer ==
  [][/\ orphanTimers' = 0
     /\ UpdateConfigCalled =>
          /\ (isRunning /\ intervalId # 0) =>
               /\ intervalId' = cfgInterval'
               /\ out' = {Ev("clearInterval", "", "", intervalId),
                          Ev("setInterval", "", "", cfgInterval')}
          /\ ~isRunning => intervalId' = intervalId /\ out' = {}]_vars

\* C36: once start() and a stop() called during its initial cycle have both
\* resolved, a daemon that reports not running has no timer armed and runs
\* no further cycle
C36_StopRacingStart ==
  (pc["start"] = "idle" /\ pc["stop"] = "idle" /\ ~isRunning) =>
    /\ intervalId = 0
    /\ orphanTimers = 0
    /\ \A o \in out : o.op # "cycleBegin"

\* C37: every exit of a cycle (drained, early return, error) leaves
\* isProcessing false, and, when every collaborator call returns or throws,
\* a stop() that has been called resolves
C37_StopTerminates ==
  /\ [](\A o \in out : o.op = "cycleEnd" => ~isProcessing)
  /\ (pc["stop"] # "idle") ~> (pc["stop"] = "idle")

\* stop() has waited for the cycle in flight and leaves its wait loop
C37_WaitLoopLeft ==
  /\ pc["stop"] = "save"
  /\ out = {Ev("writeFile", "", "", 0)}
  /\ ~isProcessing
  /\ ~isRunning

\* C34: the due date of a reminder is (d minus n days) at t when that
\* instant is strictly after now, and tomorrow at t otherwise; it is never
\* at or before now
C34_DueDate ==
  \A o \in out : o.op = "createReminder" =>
    LET wanted == SetHours(AddDays(o.d, 0 - o.daysBefore), o.timeOfDay)
    IN /\ o.dueDate = IF wanted > now THEN wanted
                      ELSE SetHours(AddDays(now, 1), o.timeOfDay)
       /\ o.dueDate > now

\* the daemons of the server that have an armed timer or a cycle in flight
LiveDaemons ==
  {i \in DaemonIds : server.daemons[i].timer \/ server.daemons[i].isProcessing}

\* C38: whatever start_daemon, stop_daemon and force_processing calls are
\* made, at most one daemon has an armed timer or a cycle in flight, and it
\* is the one held in this.daemon, which stop_daemon stops
C38_OneLiveDaemon ==
  /\ Cardinality(LiveDaemons) <= 1
  /\ \A i \in LiveDaemons : i = server.current

====
